---- MODULE Spec2Model ----
(***************************************************************************)
(* A model of traversify/traverser.py: the path grammar (split_escaped),   *)
(* the Traverser view over a Python object graph (_find, _set, item        *)
(* access, append/extend, iteration and containment) and the Filter        *)
(* (are_equal, prune).                                                     *)
(*                                                                         *)
(* Python strings that the code inspects character by character (paths and *)
(* mapping keys) are sequences of one-character strings.  Python objects   *)
(* live in a heap indexed by address, so that aliasing is visible.         *)
(***************************************************************************)
EXTENDS Integers, Sequences, FiniteSets, TLC

VARIABLES
    heap,       \* Python heap: sequence of list/dict objects, index = address
    view,       \* the View: [value |-> address, filter |-> Filter or NoFilter]
    orig,       \* address of the caller's container the View was built over
    last,       \* outcome of the last operation on the View
    ops,        \* number of operations performed on the View
    path,       \* input of split_escaped
    parts,      \* result of split_escaped
    left,       \* Filter scenario: left tree
    right,      \* Filter scenario: right tree
    flt,        \* Filter scenario: the Filter
    out         \* Filter scenario: result of the last Filter operation

vars == <<heap, view, orig, last, ops, path, parts, left, right, flt, out>>

(***************************************************************************)
(* Bounds                                                                  *)
(***************************************************************************)
\* longest path string given to split_escaped on its own
MaxPathLen == 5

\* most nodes (containers and scalars) of a tree given to the Filter
MaxNodes == 3

\* most nodes of the container a View is built over
MaxViewNodes == 2

\* most segments of a path given to a View
MaxSegs == 3

\* most operations performed on a View
MaxOps == 2

(***************************************************************************)
(* Strings                                                                 *)
(***************************************************************************)
Dot == "."

\* The reserved placeholder text 'KQypbNUMED', as one token: no input string
\* contains it, so it never matches part of the surrounding text.
Placeholder == "KQypbNUMED"

Str(n, alphabet) == UNION {[1..k -> alphabet] : k \in 0..n}

\* str.replace('..', 'KQypbNUMED'): leftmost, non-overlapping occurrences.
RECURSIVE ProtectDots(_)
ProtectDots(s) ==
    IF s = <<>> THEN <<>>
    ELSE IF Len(s) >= 2 /\ s[1] = Dot /\ s[2] = Dot
         THEN <<Placeholder>> \o ProtectDots(SubSeq(s, 3, Len(s)))
         ELSE <<s[1]>> \o ProtectDots(Tail(s))

\* str.split('.'): every '.' separates; n separators give n+1 pieces.
RECURSIVE SplitDots(_, _)
SplitDots(s, cur) ==
    IF s = <<>> THEN <<cur>>
    ELSE IF s[1] = Dot
         THEN <<cur>> \o SplitDots(Tail(s), <<>>)
         ELSE SplitDots(Tail(s), Append(cur, s[1]))

\* k.replace('KQypbNUMED', '.')
RestoreDots(k) == [i \in 1..Len(k) |-> IF k[i] = Placeholder THEN Dot ELSE k[i]]

split_noescape(p) == SplitDots(p, <<>>)

split_escaped(p) ==
    LET pieces == SplitDots(ProtectDots(p), <<>>)
    IN  [i \in 1..Len(pieces) |-> RestoreDots(pieces[i])]

(***************************************************************************)
(* Python values.  A scalar is [sc |-> token]; a reference to a list or    *)
(* dict object is [ref |-> address].  A Traverser created by wrap_value    *)
(* (deepcopy=False, filter=None) is identified with the reference it       *)
(* wraps.  A heap object is [kind |-> "list", items |-> sequence] or       *)
(* [kind |-> "dict", items |-> function from keys].                        *)
(* A tree is a value without identity: [sc |-> token], [seq |-> sequence   *)
(* of trees] or [map |-> function from keys to trees].                     *)
(***************************************************************************)
NoneV == [sc |-> "None"]

Ref(a) == [ref |-> a]

IsRef(v) == "ref" \in DOMAIN v

IsScalarTree(t) == "sc" \in DOMAIN t

IsSeqTree(t) == "seq" \in DOMAIN t

IsMapTree(t) == "map" \in DOMAIN t

\* traversable(value): type(value) in [list, dict]
traversable(v) == IsRef(v)

IsList(h, v) == IsRef(v) /\ h[v.ref].kind = "list"

IsDict(h, v) == IsRef(v) /\ h[v.ref].kind = "dict"

Items(h, v) == h[v.ref].items

NewList(items) == [kind |-> "list", items |-> items]

NewDict(items) == [kind |-> "dict", items |-> items]

EmptyDict == NewDict(<<>>)

\* bool(value) of a scalar: None, 0, '' and False are falsy.
Truthy(v) == v.sc \notin {"None", "0", "", "False"}

DictPut(f, k, v) == [x \in (DOMAIN f) \cup {k} |-> IF x = k THEN v ELSE f[x]]

DictDrop(f, k) == [x \in (DOMAIN f) \ {k} |-> f[x]]

SetItems(h, a, items) == [h EXCEPT ![a].items = items]

\* Python list index -> position 1..len, or 0 when out of range (IndexError).
ListPos(n, i) ==
    IF i >= 0 THEN (IF i < n THEN i + 1 ELSE 0)
    ELSE (IF -i <= n THEN n + i + 1 ELSE 0)

\* The value of an object graph: what == compares and what json.dumps shows.
RECURSIVE Deep(_, _)
Deep(h, v) ==
    IF ~IsRef(v) THEN v
    ELSE LET o == h[v.ref]
         IN  IF o.kind = "list"
             THEN [seq |-> [i \in 1..Len(o.items) |-> Deep(h, o.items[i])]]
             ELSE [map |-> [k \in DOMAIN o.items |-> Deep(h, o.items[k])]]

\* Building a fresh object graph from a tree: a container literal of the
\* caller, copy.deepcopy, or the rebuilt copy of recursively_unwrap_value.
RECURSIVE Store(_, _)
RECURSIVE StoreSeq(_, _, _, _)
RECURSIVE StoreMap(_, _, _, _)
Store(h, t) ==
    IF IsScalarTree(t) THEN [h |-> h, v |-> t]
    ELSE IF IsSeqTree(t)
         THEN LET r == StoreSeq(h, t.seq, 1, <<>>)
              IN  [h |-> Append(r.h, NewList(r.v)), v |-> Ref(Len(r.h) + 1)]
         ELSE LET r == StoreMap(h, t.map, DOMAIN t.map, <<>>)
              IN  [h |-> Append(r.h, NewDict(r.v)), v |-> Ref(Len(r.h) + 1)]

StoreSeq(h, s, i, acc) ==
    IF i > Len(s) THEN [h |-> h, v |-> acc]
    ELSE LET r == Store(h, s[i])
         IN  StoreSeq(r.h, s, i + 1, Append(acc, r.v))

StoreMap(h, m, todo, acc) ==
    IF todo = {} THEN [h |-> h, v |-> acc]
    ELSE LET k == CHOOSE x \in todo : TRUE
             r == Store(h, m[k])
         IN  StoreMap(r.h, m, todo \ {k}, DictPut(acc, k, r.v))

recursively_unwrap_value(h, v) == Store(h, Deep(h, v))

(***************************************************************************)
(* Filter                                                                  *)
(***************************************************************************)
\* Filter.__init__: blacklist and whitelist are lists of keys; only
\* membership and emptiness are ever asked of them.
Filter(blacklist, whitelist) == [bl |-> blacklist, wl |-> whitelist]

\* the keys a Filter retains, with the whitelist forgotten
RetainKeysBlacklistOnly(F, ks) == IF F.bl # {} THEN {k \in ks : k \notin F.bl} ELSE ks

\* keys retained by a Filter: blacklist removes, whitelist restricts.
RetainKeys(F, ks) ==
    LET k1 == IF F.bl # {} THEN {k \in ks : k \notin F.bl} ELSE ks
    IN  IF F.wl # {} THEN {k \in k1 : k \in F.wl} ELSE k1

\* are_equal comparing all keys, as a View without Filter does
are_equal_unfiltered(F, h, l, r) == Deep(h, l) = Deep(h, r)

RECURSIVE are_equal(_, _, _, _)
are_equal(F, h, l, r) ==
    IF IsList(h, l) /\ IsList(h, r)
    THEN LET ls == Items(h, l)
             rs == Items(h, r)
         IN  /\ Len(ls) = Len(rs)
             /\ \A i \in 1..Len(ls) : are_equal(F, h, ls[i], rs[i])
    ELSE IF IsDict(h, l) /\ IsDict(h, r)
    THEN LET lm == Items(h, l)
             rm == Items(h, r)
             left_keys == RetainKeys(F, DOMAIN lm)
             right_keys == RetainKeys(F, DOMAIN rm)
         IN  /\ left_keys = right_keys
             /\ \A k \in left_keys : are_equal(F, h, lm[k], rm[k])
    ELSE Deep(h, l) = Deep(h, r)

RECURSIVE prune(_, _, _)
RECURSIVE PruneList(_, _, _, _)
RECURSIVE PruneDict(_, _, _, _, _)
prune(F, h, v) ==
    IF IsList(h, v) THEN PruneList(F, h, v.ref, 1)
    ELSE IF IsDict(h, v)
         THEN LET all == DOMAIN Items(h, v)
              IN  PruneDict(F, h, v.ref, RetainKeys(F, all), all)
         ELSE h

PruneList(F, h, a, i) ==
    IF i > Len(h[a].items) THEN h
    ELSE PruneList(F, prune(F, h, h[a].items[i]), a, i + 1)

PruneDict(F, h, a, keys, todo) ==
    IF todo = {} THEN h
    ELSE LET key == CHOOSE x \in todo : TRUE
         IN  IF key \in keys
             THEN PruneDict(F, prune(F, h, h[a].items[key]), a, keys, todo \ {key})
             ELSE PruneDict(F, SetItems(h, a, DictDrop(h[a].items, key)), a,
                            keys, todo \ {key})

(***************************************************************************)
(* int(text): an optional sign and one or more digits.                     *)
(***************************************************************************)
Digits == <<"0", "1", "2", "3", "4", "5", "6", "7", "8", "9">>

IsDigit(c) == \E d \in 1..10 : Digits[d] = c

DigitVal(c) == (CHOOSE d \in 1..10 : Digits[d] = c) - 1

Unsigned(s) == IF s # <<>> /\ s[1] \in {"-", "+"} THEN Tail(s) ELSE s

\* whether int(text) succeeds (otherwise ValueError)
IsIntText(s) ==
    /\ Unsigned(s) # <<>>
    /\ \A i \in 1..Len(Unsigned(s)) : IsDigit(Unsigned(s)[i])

RECURSIVE NatOf(_, _)
NatOf(s, acc) == IF s = <<>> THEN acc ELSE NatOf(Tail(s), 10 * acc + DigitVal(s[1]))

IntOf(s) == IF s[1] = "-" THEN 0 - NatOf(Unsigned(s), 0) ELSE NatOf(Unsigned(s), 0)

Abs(i) == IF i < 0 THEN 0 - i ELSE i

(***************************************************************************)
(* Traverser.  Operators that can raise return [h, st, v]: the heap as the *)
(* call left it, "ok" or the exception's name, and the value returned.     *)
(* A key is [s |-> text] (a str) or [i |-> n] (an int).                    *)
(***************************************************************************)
Res(h, st, v) == [h |-> h, st |-> st, v |-> v]

StrKey(text) == [s |-> text]

IntKey(n) == [i |-> n]

IsIntKey(k) == "i" \in DOMAIN k

NoneFilter == [none |-> TRUE]

IsNoneFilter(f) == "none" \in DOMAIN f

\* Traverser.__len__
TraverserLen(h, node) == IF IsList(h, node) THEN Len(Items(h, node)) ELSE 1

\* bool(node) for a Traverser (__bool__) or a scalar
Bool(h, node) == IF IsRef(node) THEN TraverserLen(h, node) # 0 ELSE Truthy(node)

\* Traverser.get(attr): self().get(attr, default); a list has no .get
TraverserGet(h, node, k) ==
    IF IsList(h, node) THEN Res(h, "AttributeError", NoneV)
    ELSE IF ~IsIntKey(k) /\ k.s \in DOMAIN Items(h, node)
         THEN Res(h, "ok", Items(h, node)[k.s])
         ELSE Res(h, "ok", NoneV)

\* Traverser.__setitem__(index, value): self()[index] = a fresh copy of value.
\* (No int key reaches a dict: _set turns the node into a list first, and
\* item assignment is given an int index for a list only.)
setitem(h, node, k, value) ==
    LET c == Store(h, value)
        items == Items(h, node)
    IN  IF IsList(h, node)
        THEN IF ~IsIntKey(k) THEN Res(h, "TypeError", NoneV)
             ELSE IF ListPos(Len(items), k.i) = 0 THEN Res(h, "IndexError", NoneV)
             ELSE Res(SetItems(c.h, node.ref,
                               [items EXCEPT ![ListPos(Len(items), k.i)] = c.v]),
                      "ok", NoneV)
        ELSE IF IsIntKey(k) THEN Res(h, "TypeError", NoneV)
             ELSE Res(SetItems(c.h, node.ref, DictPut(items, k.s, c.v)), "ok", NoneV)

\* Traverser._find(path)
RECURSIVE find_get(_, _, _)
find_get(h, node, keys) ==
    LET text == Head(keys)
        key == IF IsList(h, node) /\ IsIntText(text)
               THEN IntKey(IntOf(text)) ELSE StrKey(text)
        next_node == TraverserGet(h, node, key)
    IN  IF next_node.st # "ok" THEN NoneV
        ELSE IF Tail(keys) = <<>> THEN next_node.v
        ELSE IF ~IsRef(next_node.v) THEN NoneV
        ELSE find_get(h, next_node.v, Tail(keys))

_find(h, node, p) == find_get(h, node, split_escaped(p))

EmptyMapTree == [map |-> <<>>]

ListOfEmptyMap == [seq |-> <<EmptyMapTree>>]

\* Traverser.append(item) on a Traverser made by get: a list is appended to;
\* anything else only rebinds that Traverser, which the caller then drops.
append_temp(h, node, item) ==
    LET c == Store(h, item)
    IN  IF IsList(h, node)
        THEN SetItems(c.h, node.ref, Append(Items(h, node), c.v))
        ELSE h

\* Traverser._set(path, value): the inner set_(node, _keys, parent, parent_key);
\* set_tail is its last four lines, once node and _key are settled.
RECURSIVE set_(_, _, _, _, _, _)
RECURSIVE set_tail(_, _, _, _, _)
set_(h, node, keys, parent, parent_key, value) ==
    LET text == Head(keys)
        rest == Tail(keys)
    IN  IF IsIntText(text)
        THEN IF ~IsRef(node) THEN Res(h, "TypeError", NoneV)
             ELSE IF ~IsList(h, node)
             THEN IF ~IsRef(parent) THEN Res(h, "TypeError", NoneV)
                  ELSE LET s == setitem(h, parent, parent_key, ListOfEmptyMap)
                           g == TraverserGet(s.h, parent, parent_key)
                       IN  IF s.st # "ok" THEN s
                           ELSE IF g.st # "ok" THEN g
                           ELSE set_tail(g.h, g.v, IntKey(0), rest, value)
             ELSE IF ~IsRef(parent) THEN Res(h, "AttributeError", NoneV)
             ELSE IF Abs(IntOf(text)) >= TraverserLen(h, node)
             THEN LET g == TraverserGet(h, parent, parent_key)
                      h1 == append_temp(h, g.v, EmptyMapTree)
                      k == IF IntOf(text) >= 0 THEN TraverserLen(h1, node) - 1 ELSE 0
                      g2 == TraverserGet(h1, parent, parent_key)
                  IN  IF g.st # "ok" THEN g
                      ELSE IF ~IsRef(g.v) THEN Res(h, "AttributeError", NoneV)
                      ELSE IF g2.st # "ok" THEN g2
                      ELSE set_tail(h1, g2.v, IntKey(k), rest, value)
             ELSE LET g2 == TraverserGet(h, parent, parent_key)
                  IN  IF g2.st # "ok" THEN g2
                      ELSE set_tail(h, g2.v, IntKey(IntOf(text)), rest, value)
        ELSE IF ~Bool(h, node) \/ (IsRef(node) /\ ~IsDict(h, node))
             THEN IF ~IsRef(parent) THEN Res(h, "TypeError", NoneV)
                  ELSE LET s == setitem(h, parent, parent_key, EmptyMapTree)
                       IN  IF s.st # "ok" THEN s
                           ELSE set_tail(s.h, _find(s.h, parent, parent_key.s),
                                         StrKey(text), rest, value)
             ELSE IF ~IsRef(node) THEN Res(h, "TypeError", NoneV)
             ELSE set_tail(h, node, StrKey(text), rest, value)

set_tail(h, node, key, rest, value) ==
    IF rest = <<>>
    THEN IF ~IsRef(node) THEN Res(h, "TypeError", NoneV)
         ELSE setitem(h, node, key, value)
    ELSE IF ~IsRef(node) THEN Res(h, "AttributeError", NoneV)
         ELSE LET g == TraverserGet(h, node, key)
              IN  IF g.st # "ok" THEN g
                  ELSE set_(g.h, g.v, rest, node, key, value)

_set(h, self, p, value) == set_(h, self, split_escaped(p), NoneV, StrKey(<<>>), value)

\* Python's value[start:stop] on a list of length n: the positions taken.
\* A bound is <<>> (None) or <<i>>.
ClampIndex(n, i) == IF i < 0 THEN (IF n + i < 0 THEN 0 ELSE n + i) ELSE (IF i > n THEN n ELSE i)

ListSlice(s, start, stop) ==
    LET lo == ClampIndex(Len(s), start)
        hi == ClampIndex(Len(s), stop)
    IN  IF lo < hi THEN SubSeq(s, lo + 1, hi) ELSE <<>>

\* Traverser.__getitem__(index) for a slice [start, stop, step] of optional
\* bounds; the result is a new list, given here by its value.
getitem_slice(h, self, index) ==
    LET value == IF IsList(h, self) THEN Items(h, self) ELSE <<self>>
        start == IF index.start = <<>> THEN 0 ELSE index.start[1]
        stop == IF index.stop = <<>> THEN Len(value) ELSE index.stop[1]
        taken == ListSlice(value, start, stop)
    IN  Res(h, "ok", [seq |-> [j \in 1..Len(taken) |-> Deep(h, taken[j])]])

\* Traverser.__getitem__(index) for an int
getitem_int(h, self, i) ==
    LET value == IF IsList(h, self) THEN Items(h, self) ELSE <<self>>
    IN  IF ListPos(Len(value), i) = 0 THEN Res(h, "IndexError", NoneV)
        ELSE Res(h, "ok", Deep(h, value[ListPos(Len(value), i)]))

\* Traverser.__delitem__(item)
delitem(h, self, k) ==
    LET items == Items(h, self)
    IN  IF IsList(h, self)
        THEN IF ~IsIntKey(k) THEN Res(h, "TypeError", NoneV)
             ELSE IF ListPos(Len(items), k.i) = 0 THEN Res(h, "IndexError", NoneV)
             ELSE Res(SetItems(h, self.ref,
                        [j \in 1..(Len(items) - 1) |->
                            IF j < ListPos(Len(items), k.i) THEN items[j] ELSE items[j + 1]]),
                      "ok", NoneV)
        ELSE IF IsIntKey(k) \/ k.s \notin DOMAIN items THEN Res(h, "KeyError", NoneV)
             ELSE Res(SetItems(h, self.ref, DictDrop(items, k.s)), "ok", NoneV)

\* ensure_list(value), of a caller's value given as a tree
ensure_list(t) == IF IsSeqTree(t) THEN t.seq ELSE <<t>>

\* Traverser.append(item) / Traverser.extend(item) with the items to add:
\* [h, value] is the heap and the address the View holds afterwards.
add_items(h, value, trees) ==
    LET c == StoreSeq(h, trees, 1, <<>>)
    IN  IF IsList(h, Ref(value))
        THEN [h |-> SetItems(c.h, value, Items(h, Ref(value)) \o c.v), value |-> value]
        ELSE [h |-> Append(c.h, NewList(<<Ref(value)>> \o c.v)), value |-> Len(c.h) + 1]

append(h, value, item) == add_items(h, value, <<item>>)

extend(h, value, item) == add_items(h, value, ensure_list(item))

\* Traverser.__iter__: the elements of a list, each through wrap_value (no
\* filter), or the View itself
iter(h, self) == IF IsList(h, self) THEN Items(h, self) ELSE <<self>>

\* Traverser.__eq__(other) of a View with the given filter
eq(h, self, f, other) ==
    IF IsNoneFilter(f) THEN Deep(h, self) = Deep(h, other)
    ELSE are_equal(f, h, self, other)

\* Traverser.__contains__(item): over a list the elements are scalars or
\* Views without filter, over a dict the one element is the View itself.
contains(h, view_, item) ==
    LET self == Ref(view_.value)
        c == Store(h, item)
    IN  IF IsList(h, self)
        THEN \E j \in 1..Len(Items(h, self)) :
                eq(c.h, Items(h, self)[j], NoneFilter, c.v)
        ELSE eq(c.h, self, view_.filter, c.v)

\* Traverser.prune(filter=None)
traverser_prune(h, view_, filter) ==
    LET f == IF IsNoneFilter(filter) THEN view_.filter ELSE filter
    IN  IF IsNoneFilter(f) THEN h ELSE prune(f, h, Ref(view_.value))

(***************************************************************************)
(* Inputs: bounded sets of trees, and the values of the variables a        *)
(* scenario does not use.                                                  *)
(***************************************************************************)
\* every tree of exactly n nodes over the given keys and scalars; SeqsOf and
\* MapsOf are the children of a container, m nodes in all
RECURSIVE TreesOf(_, _, _)
RECURSIVE SeqsOf(_, _, _)
RECURSIVE MapsOf(_, _, _, _)
TreesOf(n, keys, scalars) ==
    IF n = 1
    THEN scalars \cup {[seq |-> <<>>], [map |-> <<>>]}
    ELSE {[seq |-> q] : q \in SeqsOf(n - 1, keys, scalars)}
         \cup {[map |-> f] : f \in MapsOf(n - 1, keys, keys, scalars)}

SeqsOf(m, keys, scalars) ==
    IF m = 0 THEN {<<>>}
    ELSE UNION {{<<t>> \o q : t \in TreesOf(j, keys, scalars),
                              q \in SeqsOf(m - j, keys, scalars)} : j \in 1..m}

MapsOf(m, ks, keys, scalars) ==
    IF ks = {} THEN (IF m = 0 THEN {<<>>} ELSE {})
    ELSE LET k == CHOOSE x \in ks : TRUE
         IN  MapsOf(m, ks \ {k}, keys, scalars)
             \cup UNION {{DictPut(f, k, t) : t \in TreesOf(j, keys, scalars),
                                              f \in MapsOf(m - j, ks \ {k}, keys, scalars)}
                         : j \in 1..m}

TreesUpTo(n, keys, scalars) == UNION {TreesOf(k, keys, scalars) : k \in 1..n}

EmptyFilter == Filter({}, {})

IdleView == [value |-> 0, filter |-> NoneFilter]

IdleLast == [op |-> "none"]

IdleOrig == [addr |-> 0, aliased |-> FALSE]

IdleOut == [pc |-> "idle"]

(***************************************************************************)
(* A View in use: built over a caller's container, then operated on.       *)
(***************************************************************************)
KeyA == <<"a">>

KeyB == <<"b">>

ViewTrees ==
    {t \in TreesUpTo(MaxViewNodes, {KeyA}, {[sc |-> "0"], [sc |-> "5"]}) :
        ~IsScalarTree(t)}

ViewFilters == {NoneFilter, Filter({KeyB}, {})}

\* path segments as written: a key, an index (in range of a one-element list,
\* past the end of an empty one), a negative index
SegTexts == {<<"a">>, <<"0">>, <<"-", "1">>}

RECURSIVE JoinDots(_)
JoinDots(segs) ==
    IF Len(segs) = 1 THEN segs[1] ELSE segs[1] \o <<Dot>> \o JoinDots(Tail(segs))

\* paths with an escaped dot: the key "a.b"
EscapedPaths ==
    {<<"a", Dot, Dot, "b">>, <<"a", Dot, Dot, "b", Dot, "a">>, <<"a", Dot, "a", Dot, Dot, "b">>}

ViewPaths ==
    {JoinDots(segs) : segs \in UNION {[1..k -> SegTexts] : k \in 1..MaxSegs}}
    \cup EscapedPaths

\* values given to set, item assignment, append, extend and `in`
Values == {[sc |-> "v"], EmptyMapTree}

Items_ == {[sc |-> "5"], [map |-> (KeyB :> [sc |-> "0"])], [seq |-> <<[sc |-> "v"]>>]}

ItemKeys == {StrKey(KeyA), IntKey(0), IntKey(1), IntKey(-1)}

OptIndex == {<<>>, <<1>>, <<-1>>}

Slices == {[start |-> a, stop |-> b, step |-> c] :
              a \in OptIndex, b \in {<<>>, <<1>>}, c \in {<<>>, <<2>>}}

Done(op, st, p, val, res, arg) ==
    [op |-> op, st |-> st, path |-> p, val |-> val, res |-> res, arg |-> arg,
     pre |-> Deep(heap, Ref(view.value))]

\* Traverser(value, deepcopy, filter) over the caller's container
Init ==
    \E t \in ViewTrees, deepcopy \in BOOLEAN, f \in ViewFilters :
        LET s == Store(<<>>, t)
            c == IF deepcopy THEN recursively_unwrap_value(s.h, s.v) ELSE s
        IN  /\ heap = c.h
            /\ view = [value |-> c.v.ref, filter |-> f]
            /\ orig = [addr |-> s.v.ref, aliased |-> ~deepcopy]
            /\ last = [op |-> "init"]
            /\ ops = 0
            /\ path = <<>> /\ parts = <<>>
            /\ left = NoneV /\ right = NoneV /\ flt = EmptyFilter /\ out = IdleOut

Rest == <<path, parts, left, right, flt, out>>

\* Traverser.__call__(path, value): get when value is None, else set
Call ==
    /\ ops < MaxOps
    /\ \E p \in ViewPaths, value \in Values \cup {NoneV} :
        IF value = NoneV
        THEN /\ last' = Done("get", "ok", p, value, _find(heap, Ref(view.value), p), <<>>)
             /\ heap' = heap
        ELSE LET r == _set(heap, Ref(view.value), p, value)
             IN  /\ heap' = r.h
                 /\ last' = Done("set", r.st, p, value, Ref(view.value), <<>>)
    /\ ops' = ops + 1
    /\ UNCHANGED <<view, orig, Rest>>

\* view.get(attr): the caller goes on with the sub-View when one is returned
Get ==
    /\ ops < MaxOps
    /\ \E k \in {KeyA, KeyB} :
        LET r == TraverserGet(heap, Ref(view.value), StrKey(k))
        IN  /\ last' = Done("getattr", r.st, k, NoneV, r.v, <<>>)
            /\ IF r.st = "ok" /\ IsRef(r.v)
               THEN /\ view' = [value |-> r.v.ref, filter |-> NoneFilter]
                    /\ orig' = [addr |-> r.v.ref, aliased |-> TRUE]
               ELSE UNCHANGED <<view, orig>>
    /\ ops' = ops + 1
    /\ UNCHANGED <<heap, Rest>>

\* view[index] = value; an int index is given to a list only
SetItem ==
    /\ ops < MaxOps
    /\ \E k \in ItemKeys, value \in Values :
        /\ IsIntKey(k) => IsList(heap, Ref(view.value))
        /\ LET r == setitem(heap, Ref(view.value), k, value)
           IN  /\ heap' = r.h
               /\ last' = Done("setitem", r.st, <<>>, value, NoneV, k)
    /\ ops' = ops + 1
    /\ UNCHANGED <<view, orig, Rest>>

\* del view[item]
DelItem ==
    /\ ops < MaxOps
    /\ \E k \in ItemKeys :
        LET r == delitem(heap, Ref(view.value), k)
        IN  /\ heap' = r.h
            /\ last' = Done("delitem", r.st, <<>>, NoneV, NoneV, k)
    /\ ops' = ops + 1
    /\ UNCHANGED <<view, orig, Rest>>

\* view.append(item)
AppendItem ==
    /\ ops < MaxOps
    /\ \E item \in Items_ :
        LET r == append(heap, view.value, item)
        IN  /\ heap' = r.h
            /\ view' = [view EXCEPT !.value = r.value]
            /\ last' = Done("append", "ok", <<>>, item, NoneV, <<>>)
    /\ ops' = ops + 1
    /\ UNCHANGED <<orig, Rest>>

\* view.extend(item)
ExtendItems ==
    /\ ops < MaxOps
    /\ \E item \in Items_ :
        LET r == extend(heap, view.value, item)
        IN  /\ heap' = r.h
            /\ view' = [view EXCEPT !.value = r.value]
            /\ last' = Done("extend", "ok", <<>>, item, NoneV, <<>>)
    /\ ops' = ops + 1
    /\ UNCHANGED <<orig, Rest>>

\* item in view
Contains ==
    /\ ops < MaxOps
    /\ \E item \in Items_ :
        last' = Done("contains", "ok", <<>>, item, contains(heap, view, item), <<>>)
    /\ ops' = ops + 1
    /\ UNCHANGED <<heap, view, orig, Rest>>

\* view[start:stop:step]
GetSlice ==
    /\ ops < MaxOps
    /\ \E index \in Slices :
        LET r == getitem_slice(heap, Ref(view.value), index)
        IN  last' = Done("getslice", r.st, <<>>, NoneV, r.v, index)
    /\ ops' = ops + 1
    /\ UNCHANGED <<heap, view, orig, Rest>>

\* view[i]
GetIndex ==
    /\ ops < MaxOps
    /\ \E i \in {0, 1, -1} :
        LET r == getitem_int(heap, Ref(view.value), i)
        IN  last' = Done("getindex", r.st, <<>>, NoneV, r.v, i)
    /\ ops' = ops + 1
    /\ UNCHANGED <<heap, view, orig, Rest>>

\* view.prune(filter)
Prune ==
    /\ ops < MaxOps
    /\ \E f \in ViewFilters :
        /\ heap' = traverser_prune(heap, view, f)
        /\ last' = Done("prune", "ok", <<>>, NoneV, NoneV, f)
    /\ ops' = ops + 1
    /\ UNCHANGED <<view, orig, Rest>>

Next ==
    \/ Call \/ Get \/ SetItem \/ DelItem \/ AppendItem \/ ExtendItems
    \/ Contains \/ GetSlice \/ GetIndex \/ Prune

Spec == Init /\ [][Next]_vars

(***************************************************************************)
(* The path grammar on its own: every short path string over PathChars,    *)
(* and the spec's example "a..b.c".                                        *)
(***************************************************************************)
PathChars == {"a", "b", Dot}

ExamplePath == <<"a", Dot, Dot, "b", Dot, "c">>

InitPath ==
    /\ path \in Str(MaxPathLen, PathChars) \cup {ExamplePath}
    /\ parts = <<>>
    /\ heap = <<>> /\ view = IdleView /\ orig = IdleOrig /\ last = IdleLast /\ ops = 0
    /\ left = NoneV /\ right = NoneV /\ flt = Filter({}, {}) /\ out = IdleOut

SplitEscaped ==
    /\ parts = <<>>
    /\ parts' = split_escaped(path)
    /\ UNCHANGED <<heap, view, orig, last, ops, path, left, right, flt, out>>

NextPath == SplitEscaped

SpecPath == InitPath /\ [][NextPath]_vars

(***************************************************************************)
(* The Filter on its own: two caller-built trees, compared and then pruned *)
(* in place.                                                               *)
(***************************************************************************)
FilterKeys == {KeyA, KeyB}

FilterScalars == {[sc |-> "0"], [sc |-> "1"]}

\* the trees given to Filter.prune
PruneTrees == TreesUpTo(MaxNodes, FilterKeys, FilterScalars)

\* the trees given to Filter.are_equal, in pairs
FilterTrees == TreesUpTo(MaxNodes, FilterKeys, {[sc |-> "0"]})

Filters == {Filter(bl, wl) : bl \in {{}, {KeyB}}, wl \in {{}, {KeyA}}}

InitPrune ==
    \E tl \in PruneTrees :
        LET sl == Store(<<>>, tl)
        IN  /\ heap = sl.h
            /\ left = sl.v
            /\ right = NoneV
            /\ flt = EmptyFilter
            /\ out = [pc |-> "start", eq |-> FALSE, l0 |-> tl, r0 |-> NoneV]
            /\ view = IdleView /\ orig = IdleOrig /\ last = IdleLast /\ ops = 0
            /\ path = <<>> /\ parts = <<>>

\* Filter(blacklist, whitelist).prune(value) on the caller's tree, in place
FilterPrune ==
    /\ out.pc = "start"
    /\ \E f \in Filters :
        /\ flt' = f
        /\ heap' = prune(f, heap, left)
    /\ out' = [out EXCEPT !.pc = "pruned"]
    /\ UNCHANGED <<view, orig, last, ops, path, parts, left, right>>

NextPrune == FilterPrune

SpecPrune == InitPrune /\ [][NextPrune]_vars

InitFilter ==
    \E tl \in FilterTrees, tr \in FilterTrees :
        LET sl == Store(<<>>, tl)
            sr == Store(sl.h, tr)
        IN  /\ heap = sr.h
            /\ left = sl.v
            /\ right = sr.v
            /\ flt = EmptyFilter
            /\ out = [pc |-> "start", eq |-> FALSE, l0 |-> tl, r0 |-> tr]
            /\ view = IdleView /\ orig = IdleOrig /\ last = IdleLast /\ ops = 0
            /\ path = <<>> /\ parts = <<>>

\* Filter(blacklist, whitelist).are_equal(left, right)
FilterAreEqual ==
    /\ out.pc = "start"
    /\ \E f \in Filters :
        /\ flt' = f
        /\ out' = [out EXCEPT !.pc = "compared",
                              !.eq = are_equal(f, heap, left, right)]
    /\ UNCHANGED <<heap, view, orig, last, ops, path, parts, left, right>>

NextFilter == FilterAreEqual

SpecFilter == InitFilter /\ [][NextFilter]_vars

(***************************************************************************)
(* C9  Path grammar.  split_escaped equals the left-to-right scan in which *)
(* each ".." pair adds one literal '.' to the current segment and each     *)
(* remaining single '.' ends the segment; "a..b.c" gives ["a.b", "c"]; an  *)
(* empty segment can only be the first or the last one.                    *)
(***************************************************************************)
RECURSIVE ScanPath(_, _)
ScanPath(s, cur) ==
    IF s = <<>> THEN <<cur>>
    ELSE IF s[1] # Dot THEN ScanPath(Tail(s), Append(cur, s[1]))
    ELSE IF Len(s) >= 2 /\ s[2] = Dot
         THEN ScanPath(Tail(Tail(s)), Append(cur, Dot))
         ELSE <<cur>> \o ScanPath(Tail(s), <<>>)

PathGrammar ==
    parts # <<>> =>
        /\ parts = ScanPath(path, <<>>)
        /\ path = ExamplePath => parts = << <<"a", Dot, "b">>, <<"c">> >>
        /\ \A i \in 2..(Len(parts) - 1) : parts[i] # <<>>

\* an escaped pair followed by a separator: "a...b" is ["a.", "b"]
PathGrammarWitness ==
    /\ path = <<"a", Dot, Dot, Dot, "b">>
    /\ parts = << <<"a", Dot>>, <<"b">> >>

(***************************************************************************)
(* C6  Pruning.  After Filter.prune(tree) every Mapping reached keeps      *)
(* exactly its previous keys minus the blacklisted ones, restricted to the *)
(* whitelist when one is configured; every Sequence keeps its length and   *)
(* order; every scalar is unchanged.                                       *)
(***************************************************************************)
RECURSIVE PrunedFrom(_, _, _)
PrunedFrom(F, before, after) ==
    IF IsScalarTree(before) THEN after = before
    ELSE IF IsSeqTree(before)
    THEN /\ IsSeqTree(after)
         /\ Len(after.seq) = Len(before.seq)
         /\ \A i \in 1..Len(before.seq) : PrunedFrom(F, before.seq[i], after.seq[i])
    ELSE /\ IsMapTree(after)
         /\ DOMAIN after.map =
                {k \in DOMAIN before.map : k \notin F.bl /\ (F.wl = {} \/ k \in F.wl)}
         /\ \A k \in DOMAIN after.map : PrunedFrom(F, before.map[k], after.map[k])

PruneKeepsRetained ==
    out.pc = "pruned" => PrunedFrom(flt, out.l0, Deep(heap, left))

\* a blacklisted key removed below the root, inside a Sequence element
PruneWitness ==
    /\ out.pc = "pruned"
    /\ flt = Filter({KeyB}, {})
    /\ out.l0 = [seq |-> << [map |-> (KeyB :> [sc |-> "1"])] >>]
    /\ Deep(heap, left) = [seq |-> << [map |-> <<>>] >>]

(***************************************************************************)
(* C10  Filter equality agrees with pruning.  F.are_equal(L, R) is true    *)
(* iff the trees obtained by F.prune on independent copies of L and R are  *)
(* deeply equal; prune is idempotent, are_equal reflexive and symmetric.   *)
(***************************************************************************)
\* The value v has after Filter.prune(v).  prune is applied to the heap as
\* it is when the trees are compared and yields a heap of its own, so each
\* tree is pruned as an independent copy would be.
PrunedCopy(F, h, v) == Deep(prune(F, h, v), v)

\* the same after pruning twice
PrunedTwice(F, h, v) ==
    LET h1 == prune(F, h, v)
    IN  Deep(prune(F, h1, v), v)

EqualIffPrunedEqual ==
    out.pc = "compared" =>
        /\ out.eq <=> (PrunedCopy(flt, heap, left) = PrunedCopy(flt, heap, right))
        /\ PrunedTwice(flt, heap, left) = PrunedCopy(flt, heap, left)
        /\ are_equal(flt, heap, left, left)
        /\ are_equal(flt, heap, right, left) = out.eq

\* two different trees that the Filter finds equal
EqualWitness ==
    /\ out.pc = "compared"
    /\ out.eq
    /\ out.l0 # out.r0
    /\ flt = Filter({KeyB}, {})

(***************************************************************************)
(* C1  Read/write consistency.  After set(P, V) has completed on a View,   *)
(* get(P) on the same View returns V.                                      *)
(***************************************************************************)
SetThenGet ==
    (last.op = "set" /\ last.st = "ok") =>
        Deep(heap, _find(heap, Ref(view.value), last.path)) = last.val

(***************************************************************************)
(* C2  get(path) is the reference read resolution and never raises.  Walk  *)
(* the segments: at a Sequence an integer segment indexes (negative from   *)
(* the end), at a Mapping the segment is a key; a missing key, an index    *)
(* out of range, a non-integer segment at a Sequence or a step through a   *)
(* scalar gives None.                                                      *)
(***************************************************************************)
RECURSIVE ReferenceGet(_, _)
ReferenceGet(t, segs) ==
    IF segs = <<>> THEN t
    ELSE IF IsSeqTree(t)
    THEN IF IsIntText(Head(segs)) /\ ListPos(Len(t.seq), IntOf(Head(segs))) # 0
         THEN ReferenceGet(t.seq[ListPos(Len(t.seq), IntOf(Head(segs)))], Tail(segs))
         ELSE NoneV
    ELSE IF IsMapTree(t)
    THEN IF Head(segs) \in DOMAIN t.map
         THEN ReferenceGet(t.map[Head(segs)], Tail(segs))
         ELSE NoneV
    ELSE NoneV

GetIsReferenceRead ==
    last.op = "get" =>
        /\ last.st = "ok"
        /\ Deep(heap, last.res) = ReferenceGet(last.pre, split_escaped(last.path))

(***************************************************************************)
(* C3  set(path, value) never fails structurally: it completes without     *)
(* raising and returns the View it was called on.  Stated here for a       *)
(* Mapping root and a path whose first segment is a key, so that the root  *)
(* itself is never the position to coerce.                                 *)
(***************************************************************************)
SetNeverFails ==
    (/\ last.op = "set"
     /\ IsMapTree(last.pre)
     /\ ~IsIntText(split_escaped(last.path)[1])) =>
        (last.st = "ok" /\ last.res = Ref(view.value))

(***************************************************************************)
(* C4  Out-of-range write on a Sequence.  When set(k.i, V) finds under key *)
(* k a Sequence of length n and |i| >= n, the Sequence has length n + 1     *)
(* afterwards, V is at index n and the n earlier elements are unchanged.   *)
(***************************************************************************)
OutOfRangeWrite ==
    LET keys == split_escaped(last.path)
        before == last.pre.map[keys[1]]
        n == Len(before.seq)
    IN  /\ last.op = "set"
        /\ Len(keys) = 2
        /\ IsMapTree(last.pre)
        /\ keys[1] \in DOMAIN last.pre.map
        /\ IsSeqTree(before)
        /\ IsIntText(keys[2])
        /\ Abs(IntOf(keys[2])) >= n

OutOfRangeAppends ==
    OutOfRangeWrite =>
        LET keys == split_escaped(last.path)
            before == last.pre.map[keys[1]]
            after == Deep(heap, Ref(view.value)).map[keys[1]]
            n == Len(before.seq)
        IN  /\ last.st = "ok"
            /\ IsSeqTree(after)
            /\ Len(after.seq) = n + 1
            /\ after.seq[n + 1] = last.val
            /\ \A j \in 1..n : after.seq[j] = before.seq[j]

(***************************************************************************)
(* C5  Aliasing without copy.  A View built with deepcopy=false, or a      *)
(* sub-View returned by get, holds the caller's container itself after any *)
(* sequence of set, item assignment, delete, append and extend.            *)
(***************************************************************************)
ViewAliasesOriginal ==
    orig.aliased => view.value = orig.addr

(***************************************************************************)
(* C7  Containment uses the View's own equality rule.  `item in view` is   *)
(* true iff some element of the View's iteration equals the item: by the   *)
(* View's Filter when it has one, by deep equality otherwise.              *)
(***************************************************************************)
ContainsByViewRule ==
    last.op = "contains" =>
        LET c == Store(heap, last.val)
            elems == iter(heap, Ref(view.value))
        IN  last.res <=>
                \E j \in 1..Len(elems) : eq(c.h, elems[j], view.filter, c.v)

(***************************************************************************)
(* C8  Slice and index access.  With s the View's value as a list,         *)
(* view[start:stop:step] is the standard slice s[start:stop:step] (here    *)
(* for a positive or omitted step) and view[i] is s[i].                    *)
(***************************************************************************)
StandardSlice(s, index) ==
    LET n == Len(s)
        step == IF index.step = <<>> THEN 1 ELSE index.step[1]
        lo == IF index.start = <<>> THEN 0 ELSE ClampIndex(n, index.start[1])
        hi == IF index.stop = <<>> THEN n ELSE ClampIndex(n, index.stop[1])
        count == IF lo < hi THEN (hi - lo + step - 1) \div step ELSE 0
    IN  [j \in 1..count |-> s[lo + (j - 1) * step + 1]]

SliceIsStandard ==
    /\ last.op = "getslice" =>
        /\ last.st = "ok"
        /\ last.res = [seq |-> StandardSlice(ensure_list(last.pre), last.arg)]
    /\ last.op = "getindex" =>
        LET s == ensure_list(last.pre)
        IN  IF ListPos(Len(s), last.arg) = 0 THEN last.st = "IndexError"
            ELSE last.st = "ok" /\ last.res = s[ListPos(Len(s), last.arg)]

====
